---- MODULE Spec2Model ----
(***************************************************************************)
(* Model of the status list of rustisvn (src/src/svn.rs) and of the        *)
(* Selected view (src/src/renders.rs).                                     *)
(*                                                                         *)
(* Text is a sequence of one-character strings.  A path is kept as the     *)
(* text PathBuf stores; PathBuf compares, orders and hashes by components. *)
(* Command output reaches the program through String::from_utf8_lossy, so  *)
(* every path is valid UTF-8 and Path::to_str never returns None here.     *)
(***************************************************************************)
EXTENDS Integers, Sequences, FiniteSets, TLC

\* entries, selections, commit_message: the fields of SvnClient.status.
\* What the last operation did: op its name, arg its index argument, issued the
\* commands it handed to raw_command in order, query_ok whether its status
\* query succeeded (TRUE when it made none), result what push_basic_commit
\* returned ("none" for the other operations).
\* call and ret: a call of one of the functions checked on their own
\* (centered_rect, svn_status) and what it returned; the client never sets them.
VARIABLES entries, selections, commit_message, op, arg, issued, query_ok, result,
          call, ret

vars == <<entries, selections, commit_message, op, arg, issued, query_ok, result,
          call, ret>>

\* ---------------------------------------------------------------- bounds
\* most lines in one output of the status command
MaxLines == 2
\* most lines in a status output parsed on its own
MaxParsedLines == 2
\* widest and tallest container centered_rect is called with
MaxWidth == 42
MaxHeight == 10

\* ---------------------------------------------------------------- text
\* byte value of the characters the model uses (UTF-8, all ASCII)
ByteOf(c) ==
    CASE c = "\n" -> 10
      [] c = "\r" -> 13
      [] c = " " -> 32
      [] c = "-" -> 45
      [] c = "/" -> 47
      [] c = "?" -> 63
      [] c = "A" -> 65
      [] c = "M" -> 77
      [] c = "a" -> 97
      [] c = "b" -> 98
      [] c = "m" -> 109
      [] c = "x" -> 120

\* char::is_whitespace, on the characters of the model
is_whitespace(c) == c \in {" ", "\n", "\r"}

RECURSIVE trim_start(_)
trim_start(s) ==
    IF s = <<>> THEN <<>>
    ELSE IF is_whitespace(Head(s)) THEN trim_start(Tail(s))
    ELSE s

RECURSIVE trim_end(_)
trim_end(s) ==
    IF s = <<>> THEN <<>>
    ELSE IF is_whitespace(s[Len(s)]) THEN trim_end(SubSeq(s, 1, Len(s) - 1))
    ELSE s

\* str::trim
trim(s) == trim_end(trim_start(s))

\* lexicographic order of two byte strings: -1, 0 or 1
RECURSIVE cmp_bytes(_, _)
cmp_bytes(s, t) ==
    IF s = <<>> THEN (IF t = <<>> THEN 0 ELSE -1)
    ELSE IF t = <<>> THEN 1
    ELSE IF ByteOf(Head(s)) < ByteOf(Head(t)) THEN -1
    ELSE IF ByteOf(Head(s)) > ByteOf(Head(t)) THEN 1
    ELSE cmp_bytes(Tail(s), Tail(t))

\* ---------------------------------------------------------------- paths
\* The segments of a path between separators, empty segments skipped.
RECURSIVE segments(_, _)
segments(p, cur) ==
    IF p = <<>> THEN (IF cur = <<>> THEN <<>> ELSE <<cur>>)
    ELSE IF Head(p) = "/"
         THEN (IF cur = <<>> THEN <<>> ELSE <<cur>>) \o segments(Tail(p), <<>>)
         ELSE segments(Tail(p), Append(cur, Head(p)))

\* Path::components on Unix: RootDir (written <<"/">>) for a leading
\* separator, then one Normal component per non-empty segment.  The model's
\* alphabet has no ".", so CurDir and ParentDir do not occur.
components(p) ==
    (IF p # <<>> /\ Head(p) = "/" THEN << <<"/">> >> ELSE <<>>) \o segments(p, <<>>)

\* Ord of Component: RootDir sorts before every Normal, Normals by bytes
cmp_component(c, d) ==
    IF c = <<"/">> THEN (IF d = <<"/">> THEN 0 ELSE -1)
    ELSE IF d = <<"/">> THEN 1
    ELSE cmp_bytes(c, d)

RECURSIVE cmp_components(_, _)
cmp_components(cs, ds) ==
    IF cs = <<>> THEN (IF ds = <<>> THEN 0 ELSE -1)
    ELSE IF ds = <<>> THEN 1
    ELSE LET c == cmp_component(Head(cs), Head(ds))
         IN  IF c # 0 THEN c ELSE cmp_components(Tail(cs), Tail(ds))

\* PathBuf::cmp
path_cmp(p, q) == cmp_components(components(p), components(q))

\* ---------------------------------------------------------------- status query
\* str::split_inclusive('\n')
RECURSIVE split_inclusive(_, _)
split_inclusive(text, cur) ==
    IF text = <<>> THEN (IF cur = <<>> THEN <<>> ELSE <<cur>>)
    ELSE IF Head(text) = "\n"
         THEN <<Append(cur, "\n")>> \o split_inclusive(Tail(text), <<>>)
         ELSE split_inclusive(Tail(text), Append(cur, Head(text)))

\* what str::lines does to one piece: drop the final "\n", then a final "\r"
strip_line_ending(piece) ==
    IF piece # <<>> /\ piece[Len(piece)] = "\n"
    THEN LET l == SubSeq(piece, 1, Len(piece) - 1)
         IN  IF l # <<>> /\ l[Len(l)] = "\r" THEN SubSeq(l, 1, Len(l) - 1) ELSE l
    ELSE piece

\* str::lines
lines(text) ==
    LET pieces == split_inclusive(text, <<>>)
    IN  [i \in 1..Len(pieces) |-> strip_line_ending(pieces[i])]

\* the separator of splitn in svn_status
is_separator(c) == is_whitespace(c) /\ c # "\n" /\ c # "\r"

\* position of the first separator of a line, 0 when there is none
first_separator(line) ==
    IF \E i \in 1..Len(line) : is_separator(line[i])
    THEN CHOOSE i \in 1..Len(line) :
            /\ is_separator(line[i])
            /\ \A j \in 1..(i - 1) : ~is_separator(line[j])
    ELSE 0

SvnStatusEntry_new(file, state) == [file |-> file, state |-> state]

\* parse_line that keeps the whitespace around the path
parse_line_untrimmed(line) ==
    LET k == first_separator(line)
    IN  IF k = 0 THEN <<>>
        ELSE << SvnStatusEntry_new(SubSeq(line, k + 1, Len(line)),
                                   SubSeq(line, 1, k - 1)) >>

\* the closure of filter_map in svn_status: the entries of one line, none or one
parse_line(line) ==
    LET k == first_separator(line)
    IN  IF k = 0 THEN <<>>
        ELSE << SvnStatusEntry_new(trim(SubSeq(line, k + 1, Len(line))),
                                   SubSeq(line, 1, k - 1)) >>

RECURSIVE parse_lines(_)
parse_lines(ls) ==
    IF ls = <<>> THEN <<>> ELSE parse_line(Head(ls)) \o parse_lines(Tail(ls))

\* one step of the stable sort: e goes behind every entry that is not greater
RECURSIVE insert_sorted(_, _)
insert_sorted(sorted, e) ==
    IF sorted = <<>> THEN <<e>>
    ELSE IF path_cmp(Head(sorted).file, e.file) <= 0
         THEN <<Head(sorted)>> \o insert_sorted(Tail(sorted), e)
         ELSE <<e>> \o sorted

\* entries.sort_by(|a, b| a.file.cmp(&b.file)), a stable sort
RECURSIVE sort_by_file(_)
sort_by_file(es) ==
    IF es = <<>> THEN <<>>
    ELSE insert_sorted(sort_by_file(SubSeq(es, 1, Len(es) - 1)), es[Len(es)])

\* svn_status without its sort
svn_status_unsorted(r) ==
    IF r.ok THEN parse_lines(lines(r.out)) ELSE <<>>

\* svn_status that parses the text of a failed command as well
svn_status_of_any_text(r) == sort_by_file(parse_lines(lines(r.out)))

\* SvnClient::svn_status on the result r of raw_command(["status"])
svn_status(r) ==
    IF r.ok THEN sort_by_file(parse_lines(lines(r.out))) ELSE <<>>

\* ---------------------------------------------------------------- inputs
\* lines the status command may print
StatusLines ==
    { <<"M", " ", "a">>,
      <<"?", " ", " ", "a", "/", "b", " ", "\r">>,
      <<"A", " ", "a", "/", "/", "b">> }

RECURSIVE join_lines(_)
join_lines(ls) ==
    IF ls = <<>> THEN <<>> ELSE Head(ls) \o <<"\n">> \o join_lines(Tail(ls))

StatusTexts ==
    { join_lines(ls) : ls \in UNION { [1..n -> StatusLines] : n \in 0..MaxLines } }

\* results of raw_command(["status"]): Ok(stdout), or Err(stdout) when the
\* command exits with a failure
StatusResults == { [ok |-> b, out |-> t] : b \in BOOLEAN, t \in StatusTexts }

\* what svn_status can return: whether the status command succeeded, and the
\* entries svn_status made of its result
Queries == { [ok |-> r.ok, entries |-> svn_status(r)] : r \in StatusResults }

\* every path a status output of the model can name
Paths == UNION { { q.entries[i].file : i \in 1..Len(q.entries) } : q \in Queries }

\* PathBuf::eq and PathBuf::hash go by components; equal_paths tabulates, for
\* each path of the model, the paths equal to it
equal_paths == [p \in Paths |-> { q \in Paths : components(p) = components(q) }]
path_eq(p, q) == q \in equal_paths[p]

\* ordinals and indices the callers pass
Indices == 0..MaxLines

\* the characters typed into the commit message, and the messages the buffer
\* holds in the model
MsgChars == {" ", "x"}
Messages == { <<>>, <<" ">>, <<"x">>, <<" ", "x">> }

\* ---------------------------------------------------------------- SvnStatusList
\* Vec::get with the 0-based index of the source: none or one entry
get(es, idx) == IF idx < Len(es) THEN <<es[idx + 1]>> ELSE <<>>

\* the orders in which iterating a HashSet<usize> may yield its elements
Orders(S) ==
    { f \in [1..Cardinality(S) -> S] :
        \A i, j \in 1..Cardinality(S) : i # j => f[i] # f[j] }

\* selections.iter().filter_map(|&idx| entries.get(idx)) for one iteration order
RECURSIVE selected_entries(_, _)
selected_entries(es, order) ==
    IF order = <<>> THEN <<>>
    ELSE get(es, Head(order)) \o selected_entries(es, Tail(order))

SvnStatusList_new(es, sel) ==
    [entries |-> es, selections |-> sel, commit_message |-> <<>>]

\* the list the client holds
status == [entries |-> entries, selections |-> selections,
           commit_message |-> commit_message]

\* the selections toggle_selection leaves
toggled(sel, idx) == IF idx \in sel THEN sel \ {idx} ELSE sel \cup {idx}

\* entries.iter().position(|entry| entry.file == file), 0-based, none or one
position(es, file) ==
    IF \E i \in 1..Len(es) : path_eq(es[i].file, file)
    THEN << (CHOOSE i \in 1..Len(es) :
                /\ path_eq(es[i].file, file)
                /\ \A j \in 1..(i - 1) : ~path_eq(es[j].file, file)) - 1 >>
    ELSE <<>>

\* deselected_by_file with an ordinal past the end taken as the last row
deselected_by_file_clamped(es, sel, order, idx_selected) ==
    LET chosen == selected_entries(es, order)
        n == IF idx_selected < Len(chosen) THEN idx_selected + 1 ELSE Len(chosen)
        file_to_remove == IF n > 0 THEN <<chosen[n].file>> ELSE <<>>
    IN  IF file_to_remove = <<>> THEN sel
        ELSE sel \ { i \in sel : i < Len(es) /\ path_eq(es[i + 1].file, file_to_remove[1]) }

\* the selections toggle_selection_by_file leaves when the set iterates in order
deselected_by_file(es, sel, order, idx_selected) ==
    LET chosen == selected_entries(es, order)
        file_to_remove == IF idx_selected < Len(chosen)
                          THEN <<chosen[idx_selected + 1].file>> ELSE <<>>
    IN  IF file_to_remove = <<>> THEN sel
        ELSE LET idx == position(es, file_to_remove[1])
             IN  IF idx = <<>> THEN sel ELSE sel \ {idx[1]}

\* ---------------------------------------------------------------- SvnClient
\* previously_selected_files of refresh_svn_status
previously_selected_files(list) ==
    { list.entries[i + 1].file : i \in { k \in list.selections : k < Len(list.entries) } }

\* new_selections that keeps the old indices still in range
new_selections_by_index(list, new_entries) ==
    { i \in list.selections : i < Len(new_entries) }

\* new_selections that keeps the old set as it is
new_selections_stale(list, new_entries) == list.selections

\* new_selections with the membership test negated
new_selections_negated(list, new_entries) ==
    { i \in 0..(Len(new_entries) - 1) :
        ~\E f \in previously_selected_files(list) : path_eq(f, new_entries[i + 1].file) }

\* new_selections of refresh_svn_status
new_selections(list, new_entries) ==
    LET previously_selected == previously_selected_files(list)
    IN  { i \in 0..(Len(new_entries) - 1) :
            \E f \in previously_selected : path_eq(f, new_entries[i + 1].file) }

\* refreshed without the restored commit message
refreshed_without_message(list, q) ==
    SvnStatusList_new(q.entries, new_selections(list, q.entries))

\* the list refresh_svn_status leaves when svn_status returns q.entries
refreshed(list, q) ==
    LET new_entries == q.entries
        current_commit_message == list.commit_message
    IN  [SvnStatusList_new(new_entries, new_selections(list, new_entries))
            EXCEPT !.commit_message = current_commit_message]

\* one command handed to raw_command
Command(name, args) == [cmd |-> name, args |-> args]

StatusQuery == Command("status", <<>>)

\* the path argument add_to_svn and revert_to_svn push: none or one
path_args(es, idx) ==
    IF get(es, idx) = <<>> THEN <<>> ELSE <<get(es, idx)[1].file>>

\* file_args of push_basic_commit for one iteration order of selections
file_args(es, order) ==
    LET chosen == selected_entries(es, order)
    IN  [i \in 1..Len(chosen) |-> chosen[i].file]

\* the commands of a mutating operation with the status query issued first
refresh_then_run(command) == <<StatusQuery, command>>

\* the commands of a mutating operation: the command, then the status query of
\* the refresh that follows it whatever the command returned
run_then_refresh(command) == <<command, StatusQuery>>

\* the precondition checks of push_basic_commit in the other order
commit_precondition_swapped(message, sel) ==
    IF sel = {} THEN "NoFilesSelected"
    ELSE IF trim(message) = <<>> THEN "EmptyMessage"
    ELSE "pass"

\* the precondition checks of push_basic_commit without the one on selections
commit_precondition_message_only(message, sel) ==
    IF trim(message) = <<>> THEN "EmptyMessage" ELSE "pass"

\* the precondition checks of push_basic_commit
commit_precondition(message, sel) ==
    IF trim(message) = <<>> THEN "EmptyMessage"
    ELSE IF sel = {} THEN "NoFilesSelected"
    ELSE "pass"

Install(list) ==
    /\ entries' = list.entries
    /\ selections' = list.selections
    /\ commit_message' = list.commit_message

Local(name, a) ==
    /\ op' = name
    /\ arg' = a
    /\ issued' = <<>>
    /\ query_ok' = TRUE
    /\ result' = "none"
    /\ UNCHANGED <<call, ret>>

\* ---------------------------------------------------------------- state machine
\* SvnClient::new
Init ==
    /\ entries = <<>>
    /\ selections = {}
    /\ commit_message = <<>>
    /\ op = "new"
    /\ arg = 0
    /\ issued = <<>>
    /\ query_ok = TRUE
    /\ result = "none"
    /\ call = [fn |-> "none"]
    /\ ret = [done |-> FALSE]

\* toggle_selection checks nothing; its callers pass an index of entries
toggle_selection(idx) ==
    /\ idx < Len(entries)
    /\ selections' = toggled(selections, idx)
    /\ Local("toggle_selection", idx)
    /\ UNCHANGED <<entries, commit_message>>

toggle_selection_by_file(idx_selected) ==
    /\ \E order \in Orders(selections) :
          selections' = deselected_by_file(entries, selections, order, idx_selected)
    /\ Local("toggle_selection_by_file", idx_selected)
    /\ UNCHANGED <<entries, commit_message>>

clear_commit_message ==
    /\ commit_message' = <<>>
    /\ Local("clear_commit_message", 0)
    /\ UNCHANGED <<entries, selections>>

push_char_to_commit_message(c) ==
    /\ Append(commit_message, c) \in Messages
    /\ commit_message' = Append(commit_message, c)
    /\ Local("push_char_to_commit_message", 0)
    /\ UNCHANGED <<entries, selections>>

pop_char_from_commit_message ==
    /\ commit_message' = IF commit_message = <<>> THEN <<>>
                         ELSE SubSeq(commit_message, 1, Len(commit_message) - 1)
    /\ Local("pop_char_from_commit_message", 0)
    /\ UNCHANGED <<entries, selections>>

set_commit_message(message) ==
    /\ commit_message' = message
    /\ Local("set_commit_message", 0)
    /\ UNCHANGED <<entries, selections>>

init_svn_status(q) ==
    /\ Install(SvnStatusList_new(q.entries, {}))
    /\ op' = "init_svn_status"
    /\ arg' = 0
    /\ issued' = <<StatusQuery>>
    /\ query_ok' = q.ok
    /\ result' = "none"
    /\ UNCHANGED <<call, ret>>

refresh_svn_status(q) ==
    /\ Install(refreshed(status, q))
    /\ op' = "refresh_svn_status"
    /\ arg' = 0
    /\ issued' = <<StatusQuery>>
    /\ query_ok' = q.ok
    /\ result' = "none"
    /\ UNCHANGED <<call, ret>>

\* the result of the add command is discarded, so is no input of the model
add_to_svn(idx, q) ==
    /\ Install(refreshed(status, q))
    /\ op' = "add_to_svn"
    /\ arg' = idx
    /\ issued' = run_then_refresh(Command("add", path_args(entries, idx)))
    /\ query_ok' = q.ok
    /\ result' = "none"
    /\ UNCHANGED <<call, ret>>

\* the result of the revert command is discarded as well
revert_to_svn(idx, q) ==
    /\ Install(refreshed(status, q))
    /\ op' = "revert_to_svn"
    /\ arg' = idx
    /\ issued' = run_then_refresh(Command("revert", path_args(entries, idx)))
    /\ query_ok' = q.ok
    /\ result' = "none"
    /\ UNCHANGED <<call, ret>>

\* push_basic_commit with the refresh run before the preconditions are reported
push_basic_commit_always_refreshing(ok, q) ==
    /\ op' = "push_basic_commit"
    /\ arg' = 0
    /\ UNCHANGED <<call, ret>>
    /\ query_ok' = q.ok
    /\ Install(refreshed(status, q))
    /\ IF commit_precondition(commit_message, selections) # "pass"
       THEN /\ result' = commit_precondition(commit_message, selections)
            /\ issued' = <<StatusQuery>>
       ELSE /\ \E order \in Orders(selections) :
                 issued' = run_then_refresh(
                              Command("commit",
                                      <<<<"-", "m">>, commit_message>>
                                          \o file_args(entries, order)))
            /\ result' = IF ok THEN "Ok" ELSE "CommitFailed"

push_basic_commit(ok, q) ==
    /\ op' = "push_basic_commit"
    /\ arg' = 0
    /\ UNCHANGED <<call, ret>>
    /\ IF commit_precondition(commit_message, selections) # "pass"
       THEN /\ result' = commit_precondition(commit_message, selections)
            /\ issued' = <<>>
            /\ query_ok' = TRUE
            /\ UNCHANGED <<entries, selections, commit_message>>
       ELSE /\ \E order \in Orders(selections) :
                 issued' = run_then_refresh(
                              Command("commit",
                                      <<<<"-", "m">>, commit_message>>
                                          \o file_args(entries, order)))
            /\ query_ok' = q.ok
            /\ Install(refreshed(status, q))
            /\ result' = IF ok THEN "Ok" ELSE "CommitFailed"

Next ==
    \/ \E idx \in Indices : toggle_selection(idx)
    \/ \E idx_selected \in Indices : toggle_selection_by_file(idx_selected)
    \/ clear_commit_message
    \/ \E c \in MsgChars : push_char_to_commit_message(c)
    \/ pop_char_from_commit_message
    \/ \E message \in Messages : set_commit_message(message)
    \/ \E q \in Queries : init_svn_status(q)
    \/ \E q \in Queries : refresh_svn_status(q)
    \/ \E idx \in 0..Len(entries), q \in Queries : add_to_svn(idx, q)
    \/ \E idx \in 0..Len(entries), q \in Queries : revert_to_svn(idx, q)
    \/ \E ok \in BOOLEAN, q \in Queries : push_basic_commit(ok, q)

Spec == Init /\ [][Next]_vars

\* ---------------------------------------------------------------- centered_rect
min_width == 40
min_height == 8

Max(a, b) == IF a >= b THEN a ELSE b
Min(a, b) == IF a <= b THEN a ELSE b

\* the values a u16 holds
IsU16(n) == n \in 0..65535

Rect_new(x, y, width, height) == [x |-> x, y |-> y, width |-> width, height |-> height]

\* How the layout library turns the solved positions of a split into cells:
\* its current releases round the start and the end of a segment to the
\* nearest cell, its earlier releases truncate the start and the size.
Roundings == {"round", "truncate"}

\* n / 100 rounded to the nearest integer, halves away from zero
round_hundredths(n) == (n + 50) \div 100

\* Layout::split of `length` cells by three Percentage constraints: the start
\* and the size of the second segment
split_middle(length, percents, rounding) ==
    LET start == length * percents[1]
        end == length * (percents[1] + percents[2])
    IN  IF rounding = "round"
        THEN [start |-> round_hundredths(start),
              size |-> round_hundredths(end) - round_hundredths(start)]
        ELSE [start |-> start \div 100,
              size |-> (length * percents[2]) \div 100]

\* the percentage an axis gets: the requested one, or the one that covers the
\* minimum when that is larger
actual_percent(percent, minimum, dimension) ==
    Max(percent, Min((minimum * 100) \div dimension, 100))

\* the constraints of one split of centered_rect
constraints(actual) == <<(100 - actual) \div 2, actual, (100 - actual) \div 2>>

\* centered_rect: a division by zero panics; wrapped says that a value left
\* the range of u16 on the way
centered_rect(percent_x, percent_y, r, rounding) ==
    IF r.width = 0 \/ r.height = 0
    THEN [done |-> TRUE, panicked |-> TRUE]
    ELSE LET actual_percent_x == actual_percent(percent_x, min_width, r.width)
             actual_percent_y == actual_percent(percent_y, min_height, r.height)
             vertical == split_middle(r.height, constraints(actual_percent_y), rounding)
             middle_vertical_area ==
                 Rect_new(r.x, r.y + vertical.start, r.width, vertical.size)
             horizontal == split_middle(middle_vertical_area.width,
                                        constraints(actual_percent_x), rounding)
         IN  [done |-> TRUE,
              panicked |-> FALSE,
              wrapped |-> \E n \in { min_width * 100, min_height * 100,
                                     (min_width * 100) \div r.width,
                                     (min_height * 100) \div r.height,
                                     100 - actual_percent_x, 100 - actual_percent_y } :
                             ~IsU16(n),
              percents_x |-> constraints(actual_percent_x),
              percents_y |-> constraints(actual_percent_y),
              rect |-> Rect_new(middle_vertical_area.x + horizontal.start,
                                middle_vertical_area.y,
                                horizontal.size,
                                middle_vertical_area.height)]

\* ---------------------------------------------------------------- functions on their own
\* the percentages centered_rect is called with
Percents == {0, 10, 20, 60, 100}

Containers ==
    { Rect_new(0, 0, w, h) : w \in 0..MaxWidth, h \in 0..MaxHeight }

CenteredRectCalls ==
    { [fn |-> "centered_rect", percent_x |-> px, percent_y |-> py, r |-> r,
       rounding |-> m] :
        px \in Percents, py \in Percents, r \in Containers, m \in Roundings }

\* lines of a status output parsed on its own
ParsedLines ==
    { <<>>,
      <<"M", " ", "a">>,
      <<"M", "a", "b">>,
      <<"M", "\r", "a">>,
      <<"M", "\r", " ", "a">>,
      <<" ", "M", " ", "b">>,
      <<"M", " ", " ">>,
      <<"?", " ", " ", "b", " ", "\r">> }

\* the outputs: every line ended by "\n", or the last line left without it
ParsedTexts ==
    LET ended == { join_lines(ls) :
                     ls \in UNION { [1..n -> ParsedLines] : n \in 0..MaxParsedLines } }
    IN  ended \cup { SubSeq(t, 1, Len(t) - 1) : t \in ended \ {<<>>} }

SvnStatusCalls ==
    { [fn |-> "svn_status", r |-> [ok |-> b, out |-> t]] :
        b \in BOOLEAN, t \in ParsedTexts }

InitFn ==
    /\ entries = <<>>
    /\ selections = {}
    /\ commit_message = <<>>
    /\ op = "new"
    /\ arg = 0
    /\ issued = <<>>
    /\ query_ok = TRUE
    /\ result = "none"
    /\ call \in CenteredRectCalls \cup SvnStatusCalls
    /\ ret = [done |-> FALSE]

call_centered_rect ==
    /\ call.fn = "centered_rect"
    /\ ~ret.done
    /\ ret' = centered_rect(call.percent_x, call.percent_y, call.r, call.rounding)
    /\ UNCHANGED <<entries, selections, commit_message, op, arg, issued, query_ok,
                   result, call>>

call_svn_status ==
    /\ call.fn = "svn_status"
    /\ ~ret.done
    /\ ret' = [done |-> TRUE, entries |-> svn_status(call.r)]
    /\ UNCHANGED <<entries, selections, commit_message, op, arg, issued, query_ok,
                   result, call>>

NextFn ==
    \/ call_centered_rect
    \/ call_svn_status

SpecFn == InitFn /\ [][NextFn]_vars

\* ---------------------------------------------------------------- Selected view
\* selected_entries of create_selected_items: the selected entries, sorted by
\* path, when the set iterates in order
create_selected_items(es, sel_order) == sort_by_file(selected_entries(es, sel_order))

\* ---------------------------------------------------------------- properties
\* p is the path of a selected entry
is_selected(es, sel, p) == \E i \in sel : i < Len(es) /\ path_eq(es[i + 1].file, p)

\* p is the path of an entry
is_present(es, p) == \E i \in 1..Len(es) : path_eq(es[i].file, p)

\* the step ran refresh_svn_status
RanRefresh ==
    \/ op \in {"refresh_svn_status", "add_to_svn", "revert_to_svn"}
    \/ op = "push_basic_commit" /\ issued # <<>>

MutatingCommands == {"add", "revert", "commit"}

\* C1: across every refresh a path is selected afterwards iff it was selected
\* before and is present in the new entries
C1_SelectionFollowsPath ==
    [][RanRefresh' =>
         \A p \in Paths :
            is_selected(entries', selections', p)
               <=> (is_selected(entries, selections, p) /\ is_present(entries', p))]_vars

\* a refresh that kept one selection and left another entry unselected
C1_Witness ==
    /\ op = "refresh_svn_status"
    /\ Len(entries) = 2
    /\ Cardinality(selections) = 1

\* C2: every selected index is an index of entries
C2_SelectionsInRange == \A i \in selections : i < Len(entries)

\* a refresh that shortened the list and kept a selection
C2_Witness ==
    /\ op = "refresh_svn_status"
    /\ Len(entries) = 1
    /\ selections = {0}

\* C3: commit fails on a blank message first, then on empty selections, and
\* hands the commit command to the executor only when both checks pass
C3_CommitPreconditions ==
    [][op' = "push_basic_commit" =>
         IF trim(commit_message) = <<>>
         THEN result' = "EmptyMessage" /\ issued' = <<>>
         ELSE IF selections = {}
         THEN result' = "NoFilesSelected" /\ issued' = <<>>
         ELSE /\ result' \in {"Ok", "CommitFailed"}
              /\ issued' # <<>>
              /\ issued'[1].cmd = "commit"]_vars

\* a commit refused for its blank message although files were selected
C3_Witness ==
    /\ op = "push_basic_commit"
    /\ result = "EmptyMessage"
    /\ commit_message # <<>>
    /\ selections # {}

\* C4: the commit command gets the message, then exactly the paths of the
\* selected entries, and no path of an unselected entry
C4_CommitArguments ==
    [][(op' = "push_basic_commit" /\ issued' # <<>>) =>
         LET args == issued'[1].args
             passed == { args[i] : i \in 3..Len(args) }
         IN  /\ args[1] = <<"-", "m">>
             /\ args[2] = commit_message
             /\ passed = { entries[i + 1].file : i \in selections }
             /\ \A i \in 0..(Len(entries) - 1) :
                   i \notin selections => entries[i + 1].file \notin passed]_vars

\* C5: toggle_selection_by_file(ordinal) removes the index of the entry at
\* position ordinal of the Selected view, and nothing else (stated for entries
\* with distinct paths, where each row of the view is one entry)
C5_DeselectsViewRow ==
    [][(/\ op' = "toggle_selection_by_file"
        /\ arg' < Cardinality(selections)
        /\ \A i, j \in 1..Len(entries) :
              i # j => ~path_eq(entries[i].file, entries[j].file)) =>
         \E sel_order \in Orders(selections) :
            \E i \in selections :
               /\ entries[i + 1] = create_selected_items(entries, sel_order)[arg' + 1]
               /\ selections' = selections \ {i}]_vars

\* C6: refresh, add, revert and commit leave the commit message as it was
C6_MessageCarried ==
    [][op' \in {"refresh_svn_status", "add_to_svn", "revert_to_svn", "push_basic_commit"}
         => commit_message' = commit_message]_vars

\* an add whose status query failed, with a message in the buffer
C6_Witness ==
    /\ op = "add_to_svn"
    /\ commit_message # <<>>
    /\ ~query_ok

\* C7: an operation that issues add, revert or commit issues it first and one
\* status query after it, and nothing else
C7_RefreshAfterMutation ==
    \A i \in 1..Len(issued) :
        issued[i].cmd \in MutatingCommands =>
            /\ i = 1
            /\ Len(issued) = 2
            /\ issued[2].cmd = "status"

\* a commit command that failed and was followed by the status query
C7_Witness ==
    /\ op = "push_basic_commit"
    /\ Len(issued) = 2
    /\ issued[1].cmd = "commit"
    /\ result = "CommitFailed"
    /\ issued[2].cmd = "status"

\* C8: no two entries have the same path
C8_NoDuplicatePaths ==
    \A i, j \in 1..Len(entries) : i # j => ~path_eq(entries[i].file, entries[j].file)

\* C9: entries is sorted in non-decreasing order of path
C9_EntriesSorted ==
    \A i, j \in 1..Len(entries) : i < j => path_cmp(entries[i].file, entries[j].file) <= 0

\* a status query that returned as many entries as the model allows
C9_Witness ==
    /\ op = "init_svn_status"
    /\ Len(entries) = MaxLines
    /\ path_cmp(entries[1].file, entries[Len(entries)].file) < 0

\* C10: a second refresh on the same status output changes nothing
C10_RefreshIdempotent ==
    \A q \in Queries :
        refreshed(refreshed(status, q), q) = refreshed(status, q)

\* a list with a selection that a refresh carried over
C10_Witness ==
    /\ op = "refresh_svn_status"
    /\ selections # {}
    /\ commit_message # <<>>

\* C11: add and revert issue their command with the one path of entries[index],
\* and issue no add or revert command when index is no index of entries
C11_AddRevertArguments ==
    [][op' \in {"add_to_svn", "revert_to_svn"} =>
         IF arg' < Len(entries)
         THEN /\ issued' # <<>>
              /\ issued'[1].cmd = (IF op' = "add_to_svn" THEN "add" ELSE "revert")
              /\ issued'[1].args = <<entries[arg' + 1].file>>
         ELSE \A i \in 1..Len(issued') : issued'[i].cmd \notin {"add", "revert"}]_vars

\* C12: a refresh whose status query fails leaves empty entries, empty
\* selections and the commit message it found
C12_FailedQueryLeavesEmptyList ==
    [][(RanRefresh' /\ ~query_ok') =>
         /\ entries' = <<>>
         /\ selections' = {}
         /\ commit_message' = commit_message]_vars

\* a failed status query inside a commit that had a selection and a message
C12_Witness ==
    /\ op = "push_basic_commit"
    /\ issued # <<>>
    /\ ~query_ok
    /\ entries = <<>>
    /\ commit_message # <<>>

\* C13: toggle_selection_by_file with an ordinal that is no row of the
\* Selected view changes nothing
C13_OrdinalOutOfRange ==
    [][(op' = "toggle_selection_by_file" /\ arg' >= Cardinality(selections)) =>
         UNCHANGED <<entries, selections, commit_message>>]_vars

\* an ordinal past the last row, on a list that has a selection
C13_Witness ==
    /\ op = "toggle_selection_by_file"
    /\ selections # {}
    /\ arg >= Cardinality(selections)

\* C17: a commit command carries at least one path after the message
C17_CommitNamesAPath ==
    \A i \in 1..Len(issued) :
        issued[i].cmd = "commit" => Len(issued[i].args) >= 3

\* a commit command that carried exactly one path
C17_Witness ==
    /\ op = "push_basic_commit"
    /\ issued # <<>>
    /\ Len(issued[1].args) = 3

\* C18: a commit that fails a precondition issues no command and leaves the
\* list as it was
C18_RefusedCommitChangesNothing ==
    [][(op' = "push_basic_commit" /\ (trim(commit_message) = <<>> \/ selections = {})) =>
         /\ issued' = <<>>
         /\ result' \in {"EmptyMessage", "NoFilesSelected"}
         /\ UNCHANGED <<entries, selections, commit_message>>]_vars

\* a commit refused for its empty selections, on a list with entries and a message
C18_Witness ==
    /\ op = "push_basic_commit"
    /\ result = "NoFilesSelected"
    /\ entries # <<>>
    /\ commit_message # <<>>

\* a call of centered_rect on a container of at least one cell each way returned
ReturnedRect ==
    /\ call.fn = "centered_rect"
    /\ ret.done
    /\ call.r.width >= 1
    /\ call.r.height >= 1

\* the rectangle is no smaller than the minimum, or than the container
CoversMinimum ==
    /\ ~ret.panicked
    /\ ret.rect.width >= Min(min_width, call.r.width)
    /\ ret.rect.height >= Min(min_height, call.r.height)

\* C14: for every percentage and every container of at least one cell each
\* way, centered_rect returns a rectangle no smaller than the minimum, with
\* max(requested, min(100, minimum * 100 / dimension)) as percentage of an axis
C14_NeverBelowMinimum ==
    ReturnedRect =>
        /\ CoversMinimum
        /\ ret.percents_x[2]
             = Max(call.percent_x, Min(100, (min_width * 100) \div call.r.width))
        /\ ret.percents_y[2]
             = Max(call.percent_y, Min(100, (min_height * 100) \div call.r.height))

\* C15: centered_rect(10, 10, container) on a container narrower than 40
\* columns or shorter than 8 rows returns a rectangle no smaller than the minimum
C15_LayoutFloor ==
    (/\ ReturnedRect
     /\ call.percent_x = 10
     /\ call.percent_y = 10
     /\ (call.r.width < min_width \/ call.r.height < min_height)) => CoversMinimum

\* the entries the claim C16 gives one line, with `separates` saying which
\* positions of the line hold a separator
line_entries(line, separates) ==
    IF separates = {} THEN <<>>
    ELSE LET k == CHOOSE i \in separates : \A j \in separates : i <= j
         IN  << [file |-> trim(SubSeq(line, k + 1, Len(line))),
                 state |-> SubSeq(line, 1, k - 1)] >>

RECURSIVE entries_by_whitespace(_)
entries_by_whitespace(ls) ==
    IF ls = <<>> THEN <<>>
    ELSE line_entries(Head(ls), { i \in 1..Len(Head(ls)) : is_whitespace(Head(ls)[i]) })
            \o entries_by_whitespace(Tail(ls))

RECURSIVE entries_by_blank(_)
entries_by_blank(ls) ==
    IF ls = <<>> THEN <<>>
    ELSE line_entries(Head(ls),
                      { i \in 1..Len(Head(ls)) :
                          is_whitespace(Head(ls)[i]) /\ Head(ls)[i] \notin {"\r", "\n"} })
            \o entries_by_blank(Tail(ls))

\* a call of svn_status on a successful status command returned
ReturnedEntries ==
    /\ call.fn = "svn_status"
    /\ ret.done
    /\ call.r.ok

\* C16 as claimed: a line yields an entry iff it holds a whitespace character,
\* the state is what stands before the first whitespace character, the path the
\* trimmed rest, and a line without one yields nothing and leaves the others alone
C16_SplitAtFirstWhitespace ==
    ReturnedEntries =>
        ret.entries = sort_by_file(entries_by_whitespace(lines(call.r.out)))

\* C16 as amended: the same with the first whitespace character that is
\* neither a carriage return nor a line feed
C16_SplitAtFirstBlank ==
    ReturnedEntries =>
        ret.entries = sort_by_file(entries_by_blank(lines(call.r.out)))

\* two lines, one of them without a separator although it holds a carriage
\* return, gave one entry
C16_Witness ==
    /\ ReturnedEntries
    /\ Len(lines(call.r.out)) = 2
    /\ \E i \in 1..2 : "\r" \in { lines(call.r.out)[i][j] : j \in 1..Len(lines(call.r.out)[i]) }
    /\ Len(ret.entries) = 1

\* C19: centered_rect is defined for every container, also one of width or
\* height 0: no division by zero, no value outside u16, and the three
\* percentages of each split add up to at most 100
C19_AlwaysDefined ==
    (call.fn = "centered_rect" /\ ret.done) =>
        /\ ~ret.panicked
        /\ ~ret.wrapped
        /\ ret.percents_x[1] + ret.percents_x[2] + ret.percents_x[3] <= 100
        /\ ret.percents_y[1] + ret.percents_y[2] + ret.percents_y[3] <= 100

====
